---------------------------- MODULE Spec2Model ----------------------------
(***************************************************************************)
(* A model of rsql, a single-table in-memory record store (src/src/lib.rs) *)
(* and of its command loop run_repl.                                       *)
(*                                                                         *)
(* Representation.                                                         *)
(*   - a byte is a number in 0..255; a byte buffer is a sequence of bytes, *)
(*     byte offset o of the buffer being element o+1 of the sequence;      *)
(*   - a u32 is a pair <<hi, lo>> of 16-bit halves (value hi*65536 + lo),  *)
(*     so that the whole range 0 .. 2^32-1 is covered;                     *)
(*   - a String / &str is the sequence of its chars (code points);         *)
(*     as_bytes is its UTF-8 encoding (Utf8);                              *)
(*   - a Row is a record [id, username, email] with fixed-size byte arrays;*)
(*   - the table is the pair of variables num_rows, pages; an absent page  *)
(*     (None) is the empty sequence.                                       *)
(*                                                                         *)
(* The field and page sizes are scaled down (see the bounds below); every  *)
(* derived constant is computed from them as the source computes it.       *)
(***************************************************************************)
EXTENDS Integers, Sequences, FiniteSets, TLC

VARIABLES
    endian,     \* byte order of the build's target: "little" or "big"
    num_rows,   \* Table.num_rows
    pages,      \* Table.pages: [0..MAX_PAGES-1 -> None or PAGE_SIZE bytes]
    pc,         \* "idle": no call in progress; "repl": inside run_repl,
                \* blocked in read_line; "panic": a call panicked; for the
                \* binary "main": inside main's loop, blocked in read_line,
                \* and "exit": the process has exited
    eof,        \* the reader of the running run_repl has reached end of file
    out,        \* what the last step wrote to the writer, in order
    last,       \* the last call or loop iteration: its arguments and results
    supplied,   \* history: the rows given to the successful execute_insert calls
    attempted,  \* history: the rows given to all execute_insert calls of a
                \* caller that only fills the table (SpecFill)
    cRow,       \* codec scenario: the Row under test
    cBuf,       \* codec scenario: the destination / source buffer
    cDec,       \* codec scenario: the Row returned by deserialize
    cArgs,      \* codec scenario, history: how the Row under test was made
                \* and, for Row::new, the Strings it was given
    cpc,        \* codec scenario: "new", "built", "serialized", "deserialized", "panic"
    stream,     \* one run of run_repl over a finite input: the lines not yet read
    prompts     \* one run of run_repl over a finite input: the number of
                \* prompts written so far, modulo 2

vars == <<endian, num_rows, pages, pc, eof, out, last, supplied, attempted,
          cRow, cBuf, cDec, cArgs, cpc, stream, prompts>>

tableVars == <<num_rows, pages, pc, eof, out, last, supplied, attempted>>
codecVars == <<cRow, cBuf, cDec, cArgs, cpc>>
streamVars == <<stream, prompts>>

---------------------------------------------------------------------------
(* Sizes.  COLUMN_USERNAME_SIZE, COLUMN_EMAIL_SIZE, PAGE_SIZE and MAX_PAGES *)
(* are 32, 255, 4096 and 100 in the source; the model scales them down and  *)
(* keeps every relation between them.                                       *)

COLUMN_ID_SIZE == 4
COLUMN_USERNAME_SIZE == 2
COLUMN_EMAIL_SIZE == 2
COLUMN_ID_OFFSET == 0
COLUMN_USERNAME_OFFSET == COLUMN_ID_SIZE
COLUMN_EMAIL_OFFSET == COLUMN_USERNAME_OFFSET + COLUMN_USERNAME_SIZE
ROW_SIZE == COLUMN_ID_SIZE + COLUMN_USERNAME_SIZE + COLUMN_EMAIL_SIZE
PAGE_SIZE == 21
MAX_PAGES == 2
\* ROWS_PER_PAGE rounded up instead of down
ROWS_PER_PAGE_RoundUp == (PAGE_SIZE + ROW_SIZE - 1) \div ROW_SIZE
ROWS_PER_PAGE == PAGE_SIZE \div ROW_SIZE
MAX_ROWS == MAX_PAGES * ROWS_PER_PAGE

---------------------------------------------------------------------------
(* Sequence helpers.                                                        *)

Zeros(n) == [i \in 1..n |-> 0]

\* s[from .. from+len-1] as a sequence (1-based)
Slice(s, from, len) == [i \in 1..len |-> s[from + i - 1]]

\* dest with the bytes of src copied to byte offset off (ptr::copy_nonoverlapping)
CopyAt(dest, off, src) ==
    [i \in 1..Len(dest) |->
        IF i > off /\ i <= off + Len(src) THEN src[i - off] ELSE dest[i]]

Reverse(s) == [i \in 1..Len(s) |-> s[Len(s) + 1 - i]]

RECURSIVE Flatten(_)
Flatten(ss) == IF ss = <<>> THEN <<>> ELSE Head(ss) \o Flatten(Tail(ss))

---------------------------------------------------------------------------
(* u32 as <<hi, lo>>.                                                       *)

U32(hi, lo) == <<hi, lo>>
U32_MAX == U32(65535, 65535)

\* the four bytes of the u32 in memory, in the target's byte order
IdBytes(id) ==
    LET le == <<id[2] % 256, id[2] \div 256, id[1] % 256, id[1] \div 256>>
    IN  IF endian = "little" THEN le ELSE Reverse(le)

\* the u32 whose in-memory bytes are b
IdOfBytes(b) ==
    LET le == IF endian = "little" THEN b ELSE Reverse(b)
    IN  U32(le[3] + (256 * le[4]), le[1] + (256 * le[2]))

---------------------------------------------------------------------------
(* Text.  A String is a sequence of chars; its bytes are its UTF-8 encoding. *)

Utf8Char(c) ==
    IF c < 128 THEN <<c>>
    ELSE IF c < 2048 THEN <<192 + (c \div 64), 128 + (c % 64)>>
    ELSE IF c < 65536
         THEN <<224 + (c \div 4096), 128 + ((c \div 64) % 64), 128 + (c % 64)>>
    ELSE <<240 + (c \div 262144), 128 + ((c \div 4096) % 64),
           128 + ((c \div 64) % 64), 128 + (c % 64)>>

\* String::as_bytes
RECURSIVE Utf8(_)
Utf8(s) == IF s = <<>> THEN <<>> ELSE Utf8Char(Head(s)) \o Utf8(Tail(s))

IsCont(b, lo, hi) == b >= lo /\ b <= hi

\* core::str::from_utf8(b).is_ok(): b is well-formed UTF-8
RECURSIVE IsUtf8(_)
IsUtf8(b) ==
    IF b = <<>> THEN TRUE
    ELSE LET n == Len(b)
             b1 == b[1]
             Rest(k) == IsUtf8(SubSeq(b, k + 1, n))
         IN  IF b1 <= 127 THEN Rest(1)
             ELSE IF b1 >= 194 /\ b1 <= 223
                  THEN n >= 2 /\ IsCont(b[2], 128, 191) /\ Rest(2)
             ELSE IF b1 >= 224 /\ b1 <= 239
                  THEN /\ n >= 3
                       /\ IsCont(b[2], IF b1 = 224 THEN 160 ELSE 128,
                                       IF b1 = 237 THEN 159 ELSE 191)
                       /\ IsCont(b[3], 128, 191)
                       /\ Rest(3)
             ELSE IF b1 >= 240 /\ b1 <= 244
                  THEN /\ n >= 4
                       /\ IsCont(b[2], IF b1 = 240 THEN 144 ELSE 128,
                                       IF b1 = 244 THEN 143 ELSE 191)
                       /\ IsCont(b[3], 128, 191)
                       /\ IsCont(b[4], 128, 191)
                       /\ Rest(4)
             ELSE FALSE

\* str::trim_end_matches('\0') on the bytes of a &str
RECURSIVE TrimEndNul(_)
TrimEndNul(b) ==
    IF b # <<>> /\ b[Len(b)] = 0 THEN TrimEndNul(SubSeq(b, 1, Len(b) - 1)) ELSE b

\* <u32 as Display>::fmt: the decimal digits of id, no leading zero
RECURSIVE Decimal(_)
Decimal(id) ==
    LET qhi == id[1] \div 10
        t   == ((id[1] % 10) * 65536) + id[2]
        q   == U32(qhi, t \div 10)
        d   == <<48 + (t % 10)>>
    IN  IF q = U32(0, 0) THEN d ELSE Decimal(q) \o d

IsDigit(c) == c >= 48 /\ c <= 57

\* acc * 10 + d as a u32, or <<>> on overflow (checked_mul / checked_add)
MulAdd10(acc, d) ==
    LET l == (acc[2] * 10) + d
        h == (acc[1] * 10) + (l \div 65536)
    IN  IF h > 65535 THEN <<>> ELSE U32(h, l % 65536)

RECURSIVE ParseDigits(_, _)
ParseDigits(w, acc) ==
    IF w = <<>> THEN acc
    ELSE IF ~IsDigit(Head(w)) THEN <<>>
    ELSE LET nxt == MulAdd10(acc, Head(w) - 48)
         IN  IF nxt = <<>> THEN <<>> ELSE ParseDigits(Tail(w), nxt)

\* word.parse::<u32>().ok(): the u32, or <<>> for None.  An optional leading
\* '+', then at least one digit, only digits, and no overflow.
ParseU32(w) ==
    LET digits == IF w # <<>> /\ Head(w) = 43 /\ Len(w) > 1 THEN Tail(w) ELSE w
    IN  IF digits = <<>> THEN <<>> ELSE ParseDigits(digits, U32(0, 0))

---------------------------------------------------------------------------
(* Row and the row codec.                                                   *)

\* the placeholder "Invalid UTF-8" of Row::write and Row::to_string
InvalidUtf8 == <<73, 110, 118, 97, 108, 105, 100, 32, 85, 84, 70, 45, 56>>

MkRow(id, username, email) == [id |-> id, username |-> username, email |-> email]

\* Row::new.  The slice row.username[..len] panics when len exceeds the
\* field, before anything is copied.
RowNew(id, username, email) ==
    LET username_bytes == Utf8(username)
        email_bytes    == Utf8(email)
    IN  IF Len(username_bytes) > COLUMN_USERNAME_SIZE
           \/ Len(email_bytes) > COLUMN_EMAIL_SIZE
        THEN [panic |-> TRUE, row |-> MkRow(id, <<>>, <<>>)]
        ELSE [panic |-> FALSE,
              row   |-> MkRow(id,
                              CopyAt(Zeros(COLUMN_USERNAME_SIZE), 0, username_bytes),
                              CopyAt(Zeros(COLUMN_EMAIL_SIZE), 0, email_bytes))]

\* the text of one field as Row::write and Row::to_string show it
FieldText(bytes) == IF IsUtf8(bytes) THEN TrimEndNul(bytes) ELSE InvalidUtf8

\* Row::to_string: "{} {} {}"
RowToString(row) ==
    Decimal(row.id) \o <<32>> \o FieldText(row.username) \o <<32>> \o FieldText(row.email)

\* Row::write: one writeln! of "{} {} {}"
RowWrite(row) ==
    [fmt  |-> "{} {} {}\n",
     args |-> <<Decimal(row.id), FieldText(row.username), FieldText(row.email)>>]

\* serialize with the email copied to offset COLUMN_USERNAME_SIZE
serialize_EmailOffset(row, dest) ==
    CopyAt(CopyAt(CopyAt(dest, COLUMN_ID_OFFSET, IdBytes(row.id)),
                  COLUMN_USERNAME_OFFSET, row.username),
           COLUMN_USERNAME_SIZE, row.email)

\* serialize that copies size_of::<Row>() bytes, the padding byte of the
\* struct included
serialize_WholeStruct(row, dest) ==
    CopyAt(CopyAt(CopyAt(CopyAt(dest, COLUMN_ID_OFFSET, IdBytes(row.id)),
                         COLUMN_USERNAME_OFFSET, row.username),
                  COLUMN_EMAIL_OFFSET, row.email),
           ROW_SIZE, <<0>>)

\* serialize(row, dest): three copies at the fixed offsets
serialize(row, dest) ==
    CopyAt(CopyAt(CopyAt(dest, COLUMN_ID_OFFSET, IdBytes(row.id)),
                  COLUMN_USERNAME_OFFSET, row.username),
           COLUMN_EMAIL_OFFSET, row.email)

\* deserialize(src)
deserialize(src) ==
    MkRow(IdOfBytes(Slice(src, COLUMN_ID_OFFSET + 1, COLUMN_ID_SIZE)),
          Slice(src, COLUMN_USERNAME_OFFSET + 1, COLUMN_USERNAME_SIZE),
          Slice(src, COLUMN_EMAIL_OFFSET + 1, COLUMN_EMAIL_SIZE))

---------------------------------------------------------------------------
(* The paged table.  A table value is [num_rows, pages].                    *)

None == <<>>
is_none(page) == page = None

PageNums == 0..(MAX_PAGES - 1)

\* Table::new with every page allocated at construction
TableNew_Eager == [num_rows |-> 0, pages |-> [p \in PageNums |-> Zeros(PAGE_SIZE)]]

\* Table::new
TableNew == [num_rows |-> 0, pages |-> [p \in PageNums |-> None]]

\* Table::row_slot(index) on the pages pgs.  The returned window is the
\* ROW_SIZE bytes of page page_num from byte_offset on; pages is the page
\* array after the call (the page is allocated on first access).
\* Variants of row_slot with a slip in the offset arithmetic or in the bound
\* check, used to show which properties depend on them.
row_slot_NoOffset(pgs, index) ==
    LET page_num == index \div ROWS_PER_PAGE
    IN  IF page_num >= MAX_PAGES
        THEN [panic |-> TRUE, pages |-> pgs, page_num |-> page_num,
              byte_offset |-> 0, byte_end |-> 0]
        ELSE [panic       |-> FALSE,
              pages       |-> IF pgs[page_num] = <<>>
                              THEN [pgs EXCEPT ![page_num] = Zeros(PAGE_SIZE)]
                              ELSE pgs,
              page_num    |-> page_num,
              byte_offset |-> 0,
              byte_end    |-> ROW_SIZE]

row_slot_NoModulo(pgs, index) ==
    LET page_num    == index \div ROWS_PER_PAGE
        byte_offset == index * ROW_SIZE
        byte_end    == byte_offset + ROW_SIZE
    IN  IF page_num >= MAX_PAGES
        THEN [panic |-> TRUE, pages |-> pgs, page_num |-> page_num,
              byte_offset |-> 0, byte_end |-> 0]
        ELSE [panic       |-> byte_end > PAGE_SIZE,
              pages       |-> IF pgs[page_num] = <<>>
                              THEN [pgs EXCEPT ![page_num] = Zeros(PAGE_SIZE)]
                              ELSE pgs,
              page_num    |-> page_num,
              byte_offset |-> byte_offset,
              byte_end    |-> byte_end]

row_slot_EarlyPanic(pgs, index) ==
    LET page_num    == index \div ROWS_PER_PAGE
        byte_offset == (index % ROWS_PER_PAGE) * ROW_SIZE
    IN  IF page_num + 1 >= MAX_PAGES
        THEN [panic |-> TRUE, pages |-> pgs, page_num |-> page_num,
              byte_offset |-> 0, byte_end |-> 0]
        ELSE [panic       |-> FALSE,
              pages       |-> IF pgs[page_num] = <<>>
                              THEN [pgs EXCEPT ![page_num] = Zeros(PAGE_SIZE)]
                              ELSE pgs,
              page_num    |-> page_num,
              byte_offset |-> byte_offset,
              byte_end    |-> byte_offset + ROW_SIZE]

\* [byte_offset, byte_end) is the range of the returned slice; taking a slice
\* that ends beyond the page panics, after the page was allocated.
row_slot(pgs, index) ==
    LET page_num    == index \div ROWS_PER_PAGE
        row_offset  == index % ROWS_PER_PAGE
        byte_offset == row_offset * ROW_SIZE
        byte_end    == byte_offset + ROW_SIZE
    IN  IF page_num >= MAX_PAGES
        THEN [panic |-> TRUE, pages |-> pgs, page_num |-> page_num,
              byte_offset |-> 0, byte_end |-> 0]
        ELSE [panic       |-> byte_end > PAGE_SIZE,
              pages       |-> IF is_none(pgs[page_num])
                              THEN [pgs EXCEPT ![page_num] = Zeros(PAGE_SIZE)]
                              ELSE pgs,
              page_num    |-> page_num,
              byte_offset |-> byte_offset,
              byte_end    |-> byte_end]

\* the bytes seen through the window a row_slot call returned
Window(slot) ==
    Slice(slot.pages[slot.page_num], slot.byte_offset + 1,
          slot.byte_end - slot.byte_offset)

\* the pages after the window a row_slot call returned was overwritten with bytes
StoreWindow(slot, bytes) ==
    [slot.pages EXCEPT ![slot.page_num] = CopyAt(@, slot.byte_offset, bytes)]

\* the result of a statement that touched nothing
Untouched(t, result) ==
    [result |-> result, panic |-> FALSE, written |-> <<>>, rows |-> <<>>,
     num_rows |-> t.num_rows, pages |-> t.pages, slots |-> <<>>]

\* InsertInto without the increment of num_rows
InsertInto_NoCount(t, row, slot) ==
    IF slot.panic
    THEN [Untouched(t, "panic") EXCEPT !.panic = TRUE, !.pages = slot.pages,
                                       !.slots = <<t.num_rows>>]
    ELSE [Untouched(t, "Success") EXCEPT
             !.pages = StoreWindow(slot, serialize(row, Window(slot))),
             !.slots = <<t.num_rows>>]

\* serialize(row, table.row_slot(table.num_rows)); table.num_rows += 1,
\* slot being what the row_slot call returned
InsertInto(t, row, slot) ==
    IF slot.panic
    THEN [Untouched(t, "panic") EXCEPT !.panic = TRUE, !.pages = slot.pages,
                                       !.slots = <<t.num_rows>>]
    ELSE [Untouched(t, "Success") EXCEPT
             !.num_rows = t.num_rows + 1,
             !.pages    = StoreWindow(slot, serialize(row, Window(slot))),
             !.slots    = <<t.num_rows>>]

\* Variants of execute_insert with a slip in the capacity check.
\* the full table takes the row into its last slot
execute_insert_OverwriteLast(t, row) ==
    IF t.num_rows >= MAX_ROWS
    THEN [InsertInto(t, row, row_slot(t.pages, MAX_ROWS - 1)) EXCEPT
             !.result = "TableFull", !.num_rows = t.num_rows]
    ELSE InsertInto(t, row, row_slot(t.pages, t.num_rows))

\* the row is counted before the check
execute_insert_CountFull(t, row) ==
    IF t.num_rows >= MAX_ROWS
    THEN [Untouched(t, "TableFull") EXCEPT !.num_rows = t.num_rows + 1]
    ELSE InsertInto(t, row, row_slot(t.pages, t.num_rows))

\* the check is one row early
execute_insert_OffByOne(t, row) ==
    IF t.num_rows + 1 >= MAX_ROWS
    THEN Untouched(t, "TableFull")
    ELSE InsertInto(t, row, row_slot(t.pages, t.num_rows))

\* > for >=
execute_insert_Gt(t, row) ==
    IF t.num_rows > MAX_ROWS
    THEN Untouched(t, "TableFull")
    ELSE InsertInto(t, row, row_slot(t.pages, t.num_rows))

\* a row whose id is already stored replaces the stored row
execute_insert_Upsert(t, row) ==
    IF t.num_rows >= MAX_ROWS
    THEN Untouched(t, "TableFull")
    ELSE IF \E i \in 0..(t.num_rows - 1) :
                deserialize(Window(row_slot(t.pages, i))).id = row.id
    THEN [InsertInto(t, row,
                     row_slot(t.pages,
                              CHOOSE i \in 0..(t.num_rows - 1) :
                                  deserialize(Window(row_slot(t.pages, i))).id = row.id))
             EXCEPT !.num_rows = t.num_rows]
    ELSE InsertInto(t, row, row_slot(t.pages, t.num_rows))

\* execute_insert(table, row).  slots: the indexes row_slot was called with.
execute_insert(t, row) ==
    IF t.num_rows >= MAX_ROWS
    THEN Untouched(t, "TableFull")
    ELSE InsertInto(t, row, row_slot(t.pages, t.num_rows))

\* row.write(writer) for the row decoded from slot i, added to the result acc
SelectRow(acc, i, pgs, row) ==
    [acc EXCEPT !.pages = pgs, !.slots = Append(@, i), !.rows = Append(@, row),
                !.written = Append(@, RowWrite(row))]

\* the body of the loop of execute_select at index i, slot being what
\* row_slot(i) returned
SelectAt(acc, i, slot) ==
    IF slot.panic
    THEN [acc EXCEPT !.result = "panic", !.panic = TRUE, !.pages = slot.pages,
                     !.slots = Append(@, i)]
    ELSE SelectRow(acc, i, slot.pages, deserialize(Window(slot)))

\* the loop of execute_select from index i on; acc is the result so far
RECURSIVE SelectLoop(_, _)
SelectLoop(acc, i) ==
    IF i >= acc.num_rows \/ acc.panic THEN acc
    ELSE SelectLoop(SelectAt(acc, i, row_slot(acc.pages, i)), i + 1)

\* execute_select with the loop bound 0..=num_rows: it visits one slot more
execute_select_OneMore(t) ==
    [SelectLoop([Untouched(t, "Success") EXCEPT !.num_rows = t.num_rows + 1], 0)
        EXCEPT !.num_rows = t.num_rows]

\* execute_select(table, writer).  rows: the rows decoded, in order;
\* written: what was written to the writer.
execute_select(t) ==
    SelectLoop(Untouched(t, "Success"), 0)

---------------------------------------------------------------------------
(* Statements and the command loop.                                         *)

kwInsert == <<105, 110, 115, 101, 114, 116>>     \* "insert"
kwSelect == <<115, 101, 108, 101, 99, 116>>      \* "select"
dotExit  == <<46, 101, 120, 105, 116>>           \* ".exit"

\* char::is_whitespace (the Unicode White_Space property)
is_whitespace(c) ==
    \/ c \in 9..13
    \/ c \in {32, 133, 160, 5760, 8232, 8233, 8239, 8287, 12288}
    \/ c \in 8192..8202

\* str::starts_with
starts_with(s, prefix) ==
    Len(s) >= Len(prefix) /\ SubSeq(s, 1, Len(prefix)) = prefix

RECURSIVE TrimStart(_)
TrimStart(s) ==
    IF s # <<>> /\ is_whitespace(Head(s)) THEN TrimStart(Tail(s)) ELSE s

RECURSIVE TrimEnd(_)
TrimEnd(s) ==
    IF s # <<>> /\ is_whitespace(s[Len(s)]) THEN TrimEnd(SubSeq(s, 1, Len(s) - 1)) ELSE s

\* str::trim
Trim(s) == TrimEnd(TrimStart(s))

\* str::split(char::is_whitespace), collected: every whitespace char ends a
\* word, so two adjacent ones enclose an empty word; cur is the word being read
RECURSIVE SplitFrom(_, _)
SplitFrom(s, cur) ==
    IF s = <<>> THEN <<cur>>
    ELSE IF is_whitespace(Head(s)) THEN <<cur>> \o SplitFrom(Tail(s), <<>>)
    ELSE SplitFrom(Tail(s), Append(cur, Head(s)))

Split(s) == SplitFrom(s, <<>>)

NoRow == MkRow(U32(0, 0), <<>>, <<>>)

\* Statement { statement_type: Insert, row_to_insert: None } of run_repl
NewStatement == [statement_type |-> "Insert", has_row |-> FALSE, row_to_insert |-> NoRow]

PrintPrompt == [fmt |-> "rsql > ", args |-> <<>>]

\* do_meta_command(buf, writer)
do_meta_command(buf) ==
    IF buf = dotExit
    THEN [result |-> "Exit", written |-> <<>>]
    ELSE [result  |-> "Unrecognized",
          written |-> <<[fmt |-> "Unrecognized Command '{}'.\n", args |-> <<Utf8(buf)>>]>>]

\* prepare_statement(buf, statement): the result and the statement it leaves.
\* scan! takes the first four words of buf; a word parsed as String is always
\* Some, the second word is Some only if it parses as u32.
\* statement.row_to_insert = Some(Row::new(..)), new being what Row::new returned
PrepareRow(st, new) ==
    IF new.panic
    THEN [result |-> "panic", panic |-> TRUE, statement |-> st]
    ELSE [result |-> "Success", panic |-> FALSE,
          statement |-> [st EXCEPT !.has_row = TRUE, !.row_to_insert = new.row]]

\* PrepareInsert that reports Success whatever scan! returned, leaving
\* row_to_insert None when a field is missing
PrepareInsert_AlwaysSuccess(st, words, id) ==
    IF Len(words) >= 4 /\ id # <<>>
    THEN PrepareRow(st, RowNew(id, words[3], words[4]))
    ELSE [result |-> "Success", panic |-> FALSE, statement |-> st]

\* the insert branch, words being the words of buf and id the parsed second word
PrepareInsert(st, words, id) ==
    IF Len(words) >= 4 /\ id # <<>>
    THEN PrepareRow(st, RowNew(id, words[3], words[4]))
    ELSE [result |-> "SyntaxError", panic |-> FALSE, statement |-> st]

ScanId(words) == IF Len(words) >= 2 THEN ParseU32(words[2]) ELSE <<>>

ScanInsert(st, words) == PrepareInsert(st, words, ScanId(words))

\* prepare_statement that takes every other line for a select
prepare_statement_DefaultSelect(buf, statement) ==
    IF starts_with(buf, kwInsert)
    THEN ScanInsert([statement EXCEPT !.statement_type = "Insert"], Split(buf))
    ELSE [result |-> "Success", panic |-> FALSE,
          statement |-> [statement EXCEPT !.statement_type = "Select"]]

prepare_statement(buf, statement) ==
    IF starts_with(buf, kwInsert)
    THEN ScanInsert([statement EXCEPT !.statement_type = "Insert"], Split(buf))
    ELSE IF starts_with(buf, kwSelect)
    THEN [result |-> "Success", panic |-> FALSE,
          statement |-> [statement EXCEPT !.statement_type = "Select"]]
    ELSE [result |-> "Unrecognized", panic |-> FALSE, statement |-> statement]

\* execute_statement(table, statement, writer)
execute_statement(t, statement) ==
    IF statement.statement_type = "Insert"
    THEN IF statement.has_row
         THEN execute_insert(t, statement.row_to_insert)
         ELSE Untouched(t, "Success")
    ELSE execute_select(t)

\* the iteration record: ctl is "continue", "break" or "panic"
IterBase(t, input) ==
    [ctl |-> "continue", input |-> input, meta |-> "none", prep |-> "none",
     exec |-> "none", written |-> <<>>, statement |-> NewStatement,
     rows |-> <<>>, slots |-> <<>>, num_rows |-> t.num_rows, pages |-> t.pages]

\* IterMeta that continues the loop whatever do_meta_command returned
IterMeta_NoBreak(base, m) ==
    [base EXCEPT !.meta = m.result, !.written = m.written, !.ctl = "continue"]

\* the match on do_meta_command's result m
IterMeta(base, m) ==
    [base EXCEPT !.meta = m.result, !.written = m.written,
                 !.ctl = IF m.result = "Exit" THEN "break" ELSE "continue"]

\* IterExecuted that writes nothing when the table is full
IterExecuted_Silent(b, e) ==
    [b EXCEPT !.exec = e.result, !.rows = e.rows, !.slots = e.slots,
              !.num_rows = e.num_rows, !.pages = e.pages,
              !.ctl = IF e.panic THEN "panic" ELSE "continue",
              !.written = e.written]

\* the match on execute_statement's result e
IterExecuted(b, e) ==
    [b EXCEPT !.exec = e.result, !.rows = e.rows, !.slots = e.slots,
              !.num_rows = e.num_rows, !.pages = e.pages,
              !.ctl = IF e.panic THEN "panic" ELSE "continue",
              !.written =
                  IF e.result = "TableFull"
                  THEN Append(e.written,
                              [fmt  |-> "Row not inserted, table full '{}'\n",
                               args |-> <<RowToString(b.statement.row_to_insert)>>])
                  ELSE e.written]

\* the match on prepare_statement's result p
IterPrepared(t, b, p) ==
    IF p.panic THEN [b EXCEPT !.ctl = "panic"]
    ELSE IF p.result = "SyntaxError"
    THEN [b EXCEPT !.written =
             <<[fmt |-> "Syntax Error in '{}'\n", args |-> <<Utf8(b.input)>>]>>]
    ELSE IF p.result = "Unrecognized"
    THEN [b EXCEPT !.written =
             <<[fmt  |-> "Unrecognized keyword at start of '{}'\n",
                args |-> <<Utf8(b.input)>>]>>]
    ELSE IterExecuted(b, execute_statement(t, p.statement))

IterStatement(t, base, p) ==
    IterPrepared(t, [base EXCEPT !.prep = p.result, !.statement = p.statement], p)

IterInput(t, input) ==
    IF starts_with(input, <<46>>)
    THEN IterMeta(IterBase(t, input), do_meta_command(input))
    ELSE IterStatement(t, IterBase(t, input), prepare_statement(input, NewStatement))

\* One iteration of the loop of run_repl after read_line returned Ok with
\* input_buffer: what it writes after the prompt, the table it leaves, and
\* how the loop goes on.
ReplIteration(t, input_buffer) == IterInput(t, Trim(input_buffer))

---------------------------------------------------------------------------
(* Inputs.                                                                  *)

Fill(n, b) == [i \in 1..n |-> b]

\* the string of n chars 'a'
LongWord(n) == Fill(n, 97)

Join(words) ==
    Flatten([i \in 1..Len(words) |-> IF i = 1 THEN words[i] ELSE <<32>> \o words[i]])

\* Rows handed to execute_insert by a caller of the library: any field bytes
RowA == MkRow(U32(0, 1), CopyAt(Zeros(COLUMN_USERNAME_SIZE), 0, <<97>>),
                         CopyAt(Zeros(COLUMN_EMAIL_SIZE), 0, <<98>>))
RowB == MkRow(U32_MAX, Fill(COLUMN_USERNAME_SIZE, 255), Fill(COLUMN_EMAIL_SIZE, 120))
RowC == MkRow(U32(258, 772), CopyAt(Fill(COLUMN_USERNAME_SIZE, 97), 0, <<0>>),
                             Zeros(COLUMN_EMAIL_SIZE))
Rows == {RowA, RowB}

\* Lines as read_line leaves them in input_buffer
LineInsertA    == Join(<<kwInsert, <<49>>, <<97>>, <<98>>>>) \o <<10>>    \* "insert 1 a b\n"
LineInsertDup  == Join(<<kwInsert, <<43, 48, 49>>, <<98>>, <<97>>>>)      \* "insert +01 b a"
LineInsertMore == <<32>> \o kwInsert \o <<115, 160, 49, 9, 97, 32, 98, 32, 99, 13, 10>>
                                                    \* " inserts<NBSP>1<TAB>a b c\r\n"
LineOverflow   == Join(<<kwInsert, <<52, 50, 57, 52, 57, 54, 55, 50, 57, 54>>, <<97>>, <<98>>>>)
                                                    \* "insert 4294967296 a b"
LineShort      == Join(<<kwInsert, <<49>>, <<97>>>>) \o <<10>>            \* "insert 1 a\n"
LineBadId      == Join(<<kwInsert, <<45, 49>>, <<97>>, <<98>>>>) \o <<10>>  \* "insert -1 a b\n"
LineTwoSpaces  == kwInsert \o <<32, 32, 49, 32, 97, 32, 98, 10>>          \* "insert  1 a b\n"
LineTooLong    == Join(<<kwInsert, <<49>>, LongWord(COLUMN_USERNAME_SIZE + 1), <<98>>>>)
LineSelect     == kwSelect \o <<10>>                                      \* "select\n"
LineExit       == dotExit \o <<10>>                                       \* ".exit\n"
LineMeta       == <<46, 104, 10>>                                         \* ".h\n"
LineOther      == <<100, 101, 108, 32, 49, 10>>                           \* "del 1\n"
LineBlank      == <<10>>                                                  \* "\n"

Lines == {LineInsertA, LineInsertDup, LineInsertMore, LineOverflow, LineShort,
          LineBadId, LineTwoSpaces, LineTooLong, LineSelect, LineExit, LineMeta, LineOther,
          LineBlank}

---------------------------------------------------------------------------
(* The table and its callers.                                               *)

Table == [num_rows |-> num_rows, pages |-> pages]

NoLast == [op |-> "none", line |-> <<>>, input |-> <<>>, meta |-> "none",
           prep |-> "none", statement_type |-> "none", result |-> "none",
           has_row |-> FALSE, row |-> NoRow,
           rows |-> <<>>, slots |-> <<>>, index |-> 0, page_num |-> 0,
           byte_offset |-> 0, byte_end |-> 0]

NoArgs == [made |-> "none", username |-> <<>>, email |-> <<>>]

InitCodec ==
    /\ cRow = NoRow
    /\ cBuf = <<>>
    /\ cDec = NoRow
    /\ cArgs = NoArgs
    /\ cpc = "off"

InitTable ==
    /\ num_rows = TableNew.num_rows
    /\ pages = TableNew.pages
    /\ pc = "idle"
    /\ eof = FALSE
    /\ out = <<>>
    /\ last = NoLast
    /\ supplied = <<>>
    /\ attempted = <<>>

InitStream ==
    /\ stream = <<>>
    /\ prompts = 0

Init ==
    /\ endian \in {"little", "big"}
    /\ InitTable
    /\ InitCodec
    /\ InitStream

\* a call of execute_insert(table, row)
Insert(row) ==
    /\ pc = "idle"
    /\ \E r \in {execute_insert(Table, row)} :
           /\ num_rows' = r.num_rows
           /\ pages' = r.pages
           /\ pc' = IF r.panic THEN "panic" ELSE "idle"
           /\ out' = r.written
           /\ last' = [NoLast EXCEPT !.op = "execute_insert", !.result = r.result,
                                     !.statement_type = "Insert",
                                     !.has_row = TRUE, !.row = row, !.slots = r.slots]
           /\ supplied' = IF r.result = "Success" THEN Append(supplied, row) ELSE supplied
    /\ UNCHANGED <<endian, eof>>
    /\ UNCHANGED codecVars
    /\ UNCHANGED streamVars

\* a caller calls execute_insert(table, row)
ExecuteInsert(row) ==
    /\ Insert(row)
    /\ UNCHANGED attempted

\* a caller calls execute_select(table, writer)
ExecuteSelect ==
    /\ pc = "idle"
    /\ \E r \in {execute_select(Table)} :
           /\ num_rows' = r.num_rows
           /\ pages' = r.pages
           /\ pc' = IF r.panic THEN "panic" ELSE "idle"
           /\ out' = r.written
           /\ last' = [NoLast EXCEPT !.op = "execute_select", !.result = r.result,
                                     !.statement_type = "Select",
                                     !.rows = r.rows, !.slots = r.slots]
    /\ UNCHANGED <<endian, eof, supplied, attempted>>
    /\ UNCHANGED codecVars
    /\ UNCHANGED streamVars

\* a caller calls run_repl(table, reader, writer): the loop prints the first
\* prompt and blocks in read_line
RunRepl ==
    /\ pc = "idle"
    /\ pc' = "repl"
    /\ eof' = FALSE
    /\ out' = <<PrintPrompt>>
    /\ last' = [NoLast EXCEPT !.op = "run_repl"]
    /\ UNCHANGED <<endian, num_rows, pages, supplied, attempted>>
    /\ UNCHANGED codecVars
    /\ UNCHANGED streamVars

\* read_line returned Ok with input_buffer: the rest of this iteration and,
\* unless the loop ends, the prompt of the next one
ReplRead(input_buffer) ==
    \E it \in {ReplIteration(Table, input_buffer)} :
        /\ num_rows' = it.num_rows
        /\ pages' = it.pages
        /\ pc' = CASE it.ctl = "continue" -> "repl"
                   [] it.ctl = "break"    -> "idle"
                   [] OTHER               -> "panic"
        /\ out' = IF it.ctl = "continue" THEN Append(it.written, PrintPrompt)
                  ELSE it.written
        /\ last' = [NoLast EXCEPT !.op = "repl", !.line = input_buffer,
                                  !.input = it.input, !.meta = it.meta,
                                  !.prep = it.prep, !.result = it.exec,
                                  !.statement_type =
                                      IF it.prep = "Success"
                                      THEN it.statement.statement_type ELSE "none",
                                  !.has_row = it.statement.has_row,
                                  !.row = it.statement.row_to_insert,
                                  !.rows = it.rows, !.slots = it.slots]
        /\ supplied' = IF it.statement.has_row /\ it.exec = "Success"
                       THEN Append(supplied, it.statement.row_to_insert)
                       ELSE supplied

\* the reader delivers the next line
ReplLine(line) ==
    /\ pc = "repl"
    /\ ~eof
    /\ ReplRead(line)
    /\ UNCHANGED <<endian, eof, attempted>>
    /\ UNCHANGED codecVars
    /\ UNCHANGED streamVars

\* the reader is at end of file: read_line returns Ok(0) and leaves
\* input_buffer empty, now and on every later call
ReplEof ==
    /\ pc = "repl"
    /\ ReplRead(<<>>)
    /\ eof' = TRUE
    /\ UNCHANGED <<endian, attempted>>
    /\ UNCHANGED codecVars
    /\ UNCHANGED streamVars

\* read_line returned Err: "Error reading input" is written and the loop ends
ReplReadError ==
    /\ pc = "repl"
    /\ ~eof
    /\ pc' = "idle"
    /\ out' = <<[fmt |-> "Error reading input\n", args |-> <<>>]>>
    /\ last' = [NoLast EXCEPT !.op = "repl", !.result = "read_error"]
    /\ UNCHANGED <<endian, num_rows, pages, eof, supplied, attempted>>
    /\ UNCHANGED codecVars
    /\ UNCHANGED streamVars

Next ==
    \/ \E row \in Rows : ExecuteInsert(row)
    \/ ExecuteSelect
    \/ RunRepl
    \/ \E line \in Lines : ReplLine(line)
    \/ ReplEof
    \/ ReplReadError

Spec == Init /\ [][Next]_vars

---------------------------------------------------------------------------
(* A caller that only fills a fresh table, beyond its capacity, and then    *)
(* reads it.                                                                *)

\* how many inserts the caller tries beyond MAX_ROWS
MaxExtra == 2

FillInsert(row) ==
    /\ Len(attempted) < MAX_ROWS + MaxExtra
    /\ last.op # "execute_select"
    /\ Insert(row)
    /\ attempted' = Append(attempted, row)

NextFill ==
    \/ \E row \in Rows : FillInsert(row)
    \/ ExecuteSelect

SpecFill == Init /\ [][NextFill]_vars

---------------------------------------------------------------------------
(* Direct use of row_slot, as the tests of the library use it:              *)
(* serialize(&row, table.row_slot(i)) and deserialize(table.row_slot(i)).   *)

\* indexes inside the table and one page beyond its capacity
SlotIndexes == 0..(MAX_ROWS + ROWS_PER_PAGE)

LastSlot(op, index, slot) ==
    [NoLast EXCEPT !.op = op, !.result = IF slot.panic THEN "panic" ELSE "ok",
                   !.index = index, !.slots = <<index>>, !.page_num = slot.page_num,
                   !.byte_offset = slot.byte_offset, !.byte_end = slot.byte_end]

\* serialize(&row, table.row_slot(index))
SlotWrite(index, row) ==
    /\ pc = "idle"
    /\ \E slot \in {row_slot(pages, index)} :
           /\ pages' = IF slot.panic THEN slot.pages
                       ELSE StoreWindow(slot, serialize(row, Window(slot)))
           /\ pc' = IF slot.panic THEN "panic" ELSE "idle"
           /\ last' = [LastSlot("slot_write", index, slot) EXCEPT
                          !.has_row = TRUE, !.row = row]
    /\ UNCHANGED <<endian, num_rows, eof, out, supplied, attempted>>
    /\ UNCHANGED codecVars
    /\ UNCHANGED streamVars

\* deserialize(table.row_slot(index))
SlotRead(index) ==
    /\ pc = "idle"
    /\ \E slot \in {row_slot(pages, index)} :
           /\ pages' = slot.pages
           /\ pc' = IF slot.panic THEN "panic" ELSE "idle"
           /\ last' = [LastSlot("slot_read", index, slot) EXCEPT
                          !.rows = IF slot.panic THEN <<>>
                                   ELSE <<deserialize(Window(slot))>>]
    /\ UNCHANGED <<endian, num_rows, eof, out, supplied, attempted>>
    /\ UNCHANGED codecVars
    /\ UNCHANGED streamVars

NextSlot ==
    \/ \E index \in SlotIndexes, row \in Rows : SlotWrite(index, row)
    \/ \E index \in SlotIndexes : SlotRead(index)

SpecSlot == Init /\ [][NextSlot]_vars

---------------------------------------------------------------------------
(* The row codec on its own: Row::new, serialize into a caller's buffer,    *)
(* deserialize from it.                                                     *)

\* destination buffers of at least ROW_SIZE bytes, with arbitrary content
Buffers == {Zeros(ROW_SIZE), Fill(ROW_SIZE, 255), Fill(ROW_SIZE + 1, 7),
            Fill(ROW_SIZE + 2, 255), [i \in 1..(ROW_SIZE + 3) |-> i],
            Zeros(PAGE_SIZE)}

CodecIds == {U32(0, 0), U32(0, 1), U32(258, 772), U32_MAX}

\* "", "a", U+00E9 (two bytes), a word that fills the field, one byte too many
CodecNames(size) == {<<>>, <<97>>, <<233>>, LongWord(size), LongWord(size + 1)}

CodecRows == {RowA, RowB, RowC}

InitC ==
    /\ endian \in {"little", "big"}
    /\ InitTable
    /\ cRow = NoRow
    /\ cBuf \in Buffers
    /\ cDec = NoRow
    /\ cArgs = NoArgs
    /\ cpc = "new"
    /\ InitStream

\* Row::new(id, username, email)
CodecNew(id, username, email) ==
    /\ cpc = "new"
    /\ \E new \in {RowNew(id, username, email)} :
           /\ cRow' = new.row
           /\ cpc' = IF new.panic THEN "panic" ELSE "built"
    /\ cArgs' = [made |-> "Row::new", username |-> username, email |-> email]
    /\ UNCHANGED <<cBuf, cDec, endian>>
    /\ UNCHANGED tableVars
    /\ UNCHANGED streamVars

\* a Row built field by field (the fields are public)
CodecRaw(row) ==
    /\ cpc = "new"
    /\ cRow' = row
    /\ cpc' = "built"
    /\ cArgs' = [NoArgs EXCEPT !.made = "fields"]
    /\ UNCHANGED <<cBuf, cDec, endian>>
    /\ UNCHANGED tableVars
    /\ UNCHANGED streamVars

\* serialize(&row, &mut buffer)
CodecSerialize ==
    /\ cpc = "built"
    /\ cBuf' = serialize(cRow, cBuf)
    /\ cpc' = "serialized"
    /\ UNCHANGED <<cRow, cDec, cArgs, endian>>
    /\ UNCHANGED tableVars
    /\ UNCHANGED streamVars

\* deserialize(&buffer)
CodecDeserialize ==
    /\ cpc = "serialized"
    /\ cDec' = deserialize(cBuf)
    /\ cpc' = "deserialized"
    /\ UNCHANGED <<cRow, cBuf, cArgs, endian>>
    /\ UNCHANGED tableVars
    /\ UNCHANGED streamVars

NextCodec ==
    \/ \E id \in CodecIds, username \in CodecNames(COLUMN_USERNAME_SIZE),
          email \in CodecNames(COLUMN_EMAIL_SIZE) : CodecNew(id, username, email)
    \/ \E row \in CodecRows : CodecRaw(row)
    \/ CodecSerialize
    \/ CodecDeserialize

SpecCodec == InitC /\ [][NextCodec]_vars

---------------------------------------------------------------------------
(* One call of run_repl on a reader over a finite input: the lines are      *)
(* read in order and every read_line after the last one returns Ok(0).      *)

\* the longest input
MaxLines == 2

RunLines == {LineInsertA, LineSelect, LineOther, LineMeta, LineExit}

\* the finite inputs: at most MaxLines lines
Streams == UNION {[1..n -> RunLines] : n \in 0..MaxLines}

InitRun ==
    /\ endian \in {"little", "big"}
    /\ InitTable
    /\ InitCodec
    /\ stream \in Streams
    /\ prompts = 0

\* print_prompt was called once more if the loop goes on
CountPrompt == prompts' = IF pc' = "repl" THEN 1 - prompts ELSE prompts

\* run_repl(table, reader, writer) is called: the first prompt
RunStart ==
    /\ pc = "idle"
    /\ last.op = "none"
    /\ pc' = "repl"
    /\ eof' = FALSE
    /\ out' = <<PrintPrompt>>
    /\ last' = [NoLast EXCEPT !.op = "run_repl"]
    /\ CountPrompt
    /\ UNCHANGED <<endian, num_rows, pages, supplied, attempted, stream>>
    /\ UNCHANGED codecVars

\* read_line returns the next line of the input
RunLine ==
    /\ pc = "repl"
    /\ stream # <<>>
    /\ ReplRead(Head(stream))
    /\ stream' = Tail(stream)
    /\ CountPrompt
    /\ UNCHANGED <<endian, eof, attempted>>
    /\ UNCHANGED codecVars

\* the input is exhausted: read_line returns Ok(0) with an empty input_buffer
RunEof ==
    /\ pc = "repl"
    /\ stream = <<>>
    /\ ReplRead(<<>>)
    /\ eof' = TRUE
    /\ CountPrompt
    /\ UNCHANGED <<endian, attempted, stream>>
    /\ UNCHANGED codecVars

NextRun ==
    \/ RunStart
    \/ RunLine
    \/ RunEof

\* The call is made, and the loop keeps iterating once the input is
\* exhausted (read_line on an exhausted reader returns at once).  The reads of
\* the pending lines are finitely many steps of every behaviour that
\* exhausts the input.
SpecRun == InitRun /\ [][NextRun]_vars /\ WF_vars(RunStart) /\ WF_vars(RunEof)

---------------------------------------------------------------------------
(* The binary, src/src/main.rs.  It has its own copies of Row, Table and    *)
(* the statement functions; Row::new and Table::row_slot are the same as    *)
(* in the library (RowNew, row_slot), the others differ and are modelled    *)
(* here under the name main_<function>.  An Option<Row> is a record         *)
(* [has_row, row_to_insert]; an Option<String> is [some, val].              *)

NoneRow == [has_row |-> FALSE, row_to_insert |-> NoRow]

\* Statement { statement_type: None, row_to_insert: None } of main
MainStatement == [statement_type |-> "None", has_row |-> FALSE, row_to_insert |-> NoRow]

\* serialize(&Option<Row>, dst): the three copies, only if the row is Some
main_serialize(row_src, row_dst) ==
    IF row_src.has_row THEN serialize(row_src.row_to_insert, row_dst) ELSE row_dst

\* deserialize(src, &mut Option<Row>): fills the row only if it is Some
main_deserialize(row_src, row_dst) ==
    IF row_dst.has_row
    THEN [row_dst EXCEPT !.row_to_insert = deserialize(row_src)]
    ELSE row_dst

\* Row::print: "{}, {}, {}" of the id and the two whole field arrays, if both
\* are UTF-8
RowPrint(row) ==
    IF IsUtf8(row.username) /\ IsUtf8(row.email)
    THEN <<[fmt |-> "{}, {}, {}\n", args |-> <<Decimal(row.id), row.username, row.email>>]>>
    ELSE <<>>

\* the word-th item of scan!: iter.next().and_then(|word| word.parse().ok())
ScanString(words, word) ==
    IF Len(words) >= word THEN [some |-> TRUE, val |-> words[word]]
    ELSE [some |-> FALSE, val |-> <<>>]

ScanU32(words, word) == IF Len(words) >= word THEN ParseU32(words[word]) ELSE <<>>

\* if let (Some(id), Some(username), Some(email)) = input { row_to_insert =
\* Some(Row::new(id, username, email)) }; return Success
MainPrepareRow(st, id, username, email) ==
    IF id # <<>> /\ username.some /\ email.some
    THEN PrepareRow(st, RowNew(id, username.val, email.val))
    ELSE [result |-> "Success", panic |-> FALSE, statement |-> st]

\* scan!(buf, char::is_whitespace, u32, String, String): the first three
\* words of buf, the first of them parsed as u32
MainScanInsert(st, words) ==
    MainPrepareRow(st, ScanU32(words, 1), ScanString(words, 2), ScanString(words, 3))

main_prepare_statement(buf, statement) ==
    IF starts_with(buf, kwInsert)
    THEN MainScanInsert([statement EXCEPT !.statement_type = "Insert"], Split(buf))
    ELSE IF starts_with(buf, kwSelect)
    THEN [result |-> "Success", panic |-> FALSE,
          statement |-> [statement EXCEPT !.statement_type = "Select"]]
    ELSE [result |-> "Unrecognized", panic |-> FALSE, statement |-> statement]

\* println!("{:?}", x)
DebugLine(x) == [fmt |-> "{:?}\n", args |-> <<x>>]

\* serialize(&statement.row_to_insert, table.row_slot(table.num_rows));
\* table.num_rows += 1; println!("{:?}", table), pgs being the pages after
\* the serialize
MainInserted(t, pgs) ==
    [Untouched(t, "Success") EXCEPT
        !.num_rows = t.num_rows + 1,
        !.pages    = pgs,
        !.slots    = <<t.num_rows>>,
        !.written  = <<DebugLine([num_rows |-> t.num_rows + 1, pages |-> pgs])>>]

MainInsertInto(t, statement, slot) ==
    IF slot.panic
    THEN [Untouched(t, "panic") EXCEPT !.panic = TRUE, !.pages = slot.pages,
                                       !.slots = <<t.num_rows>>]
    ELSE MainInserted(t, StoreWindow(slot, main_serialize(statement, Window(slot))))

\* execute_insert(table, statement) of main.rs
main_execute_insert(t, statement) ==
    IF t.num_rows >= MAX_ROWS
    THEN Untouched(t, "TableFull")
    ELSE MainInsertInto(t, statement, row_slot(t.pages, t.num_rows))

\* if let Some(row) = &row { println!("{:?}", row); row.print() }
MainSelectRow(acc, i, pgs, row) ==
    [acc EXCEPT !.pages = pgs, !.slots = Append(@, i),
                !.rows = IF row.has_row THEN Append(@, row.row_to_insert) ELSE @,
                !.written = IF row.has_row
                            THEN @ \o <<DebugLine(row.row_to_insert)>>
                                   \o RowPrint(row.row_to_insert)
                            ELSE @]

\* the body of the loop of execute_select at index i: deserialize(
\* table.row_slot(i), &mut row), row being the local Option<Row>
MainSelectAt(acc, i, slot, row) ==
    IF slot.panic
    THEN [acc EXCEPT !.result = "panic", !.panic = TRUE, !.pages = slot.pages,
                     !.slots = Append(@, i)]
    ELSE MainSelectRow(acc, i, slot.pages, main_deserialize(Window(slot), row))

\* the loop of execute_select of main.rs from index i on, row being the
\* local Option<Row> as the iterations so far left it
RECURSIVE MainSelectLoop(_, _, _)
MainSelectLoop(acc, i, row) ==
    IF i >= acc.num_rows \/ acc.panic THEN acc
    ELSE MainSelectLoop(MainSelectAt(acc, i, row_slot(acc.pages, i), row), i + 1,
                        main_deserialize(Window(row_slot(acc.pages, i)), row))

\* execute_select(table, statement) of main.rs: let mut row = None; for i in
\* 0..table.num_rows { .. }
main_execute_select(t) ==
    MainSelectLoop(Untouched(t, "Success"), 0, NoneRow)

\* execute_statement(table, statement) of main.rs, e being what the
\* execute function returned
MainExecuted(line, e) == [e EXCEPT !.written = <<[fmt |-> line, args |-> <<>>]>> \o @]

main_execute_statement(t, statement) ==
    IF statement.statement_type = "Insert"
    THEN MainExecuted("inserting...\n", main_execute_insert(t, statement))
    ELSE IF statement.statement_type = "Select"
    THEN MainExecuted("selecting...\n", main_execute_select(t))
    ELSE Untouched(t, "None")

\* do_meta_command(buf) of main.rs: exit(0), or one line and Unrecognized
main_do_meta_command(buf) ==
    IF buf = dotExit
    THEN [result |-> "exit", written |-> <<>>]
    ELSE [result  |-> "Unrecognized",
          written |-> <<[fmt |-> "Unrecognized Command {}.\n", args |-> <<Utf8(buf)>>]>>]

\* the match on do_meta_command's result m in main
MainMeta(base, m) ==
    [base EXCEPT !.meta = m.result,
                 !.ctl = IF m.result = "exit" THEN "exit" ELSE "continue",
                 !.written =
                     IF m.result = "exit" THEN m.written
                     ELSE Append(m.written,
                                 [fmt  |-> "Unrecognized Command '{}'.\n",
                                  args |-> <<Utf8(base.input)>>])]

\* the match on execute_statement's result e in main
MainExecutedIter(b, e) ==
    [b EXCEPT !.exec = e.result, !.rows = e.rows, !.slots = e.slots,
              !.num_rows = e.num_rows, !.pages = e.pages,
              !.ctl = IF e.panic \/ e.result = "None" THEN "panic" ELSE "continue",
              !.written = IF e.result = "None"
                          THEN Append(e.written,
                                      [fmt |-> "Unhandled result, panic\n", args |-> <<>>])
                          ELSE e.written]

\* the match on prepare_statement's result p in main
MainPrepared(t, b, p) ==
    IF p.panic THEN [b EXCEPT !.ctl = "panic"]
    ELSE IF p.result = "SyntaxError"
    THEN [b EXCEPT !.written =
             <<[fmt |-> "Syntax Error in '{}'\n", args |-> <<Utf8(b.input)>>]>>]
    ELSE IF p.result = "Unrecognized"
    THEN [b EXCEPT !.written =
             <<[fmt  |-> "Unrecognized keyword at start of '{}'.\n",
                args |-> <<Utf8(b.input)>>]>>]
    ELSE MainExecutedIter(b, main_execute_statement(t, p.statement))

MainStatementIter(t, base, p) ==
    MainPrepared(t, [base EXCEPT !.prep = p.result, !.statement = p.statement], p)

\* input_buffer[0..1] panics on an empty string and when byte 1 is inside
\* the first char
MainInput(t, input) ==
    IF input = <<>> \/ Len(Utf8Char(Head(input))) > 1
    THEN [IterBase(t, input) EXCEPT !.ctl = "panic", !.statement = MainStatement]
    ELSE IF Head(input) = 46
    THEN MainMeta([IterBase(t, input) EXCEPT !.statement = MainStatement],
                  main_do_meta_command(input))
    ELSE MainStatementIter(t, IterBase(t, input),
                           main_prepare_statement(input, MainStatement))

\* One iteration of the loop of main after read_input returned: read_input
\* leaves the line without its trailing whitespace in input_buffer.
MainIteration(t, input_buffer) == MainInput(t, TrimEnd(input_buffer))

\* main is entered: Table::new(), then the first prompt
MainStart ==
    /\ pc = "idle"
    /\ last.op = "none"
    /\ pc' = "main"
    /\ eof' = FALSE
    /\ out' = <<PrintPrompt>>
    /\ last' = [NoLast EXCEPT !.op = "main_start"]
    /\ UNCHANGED <<endian, num_rows, pages, supplied, attempted>>
    /\ UNCHANGED codecVars
    /\ UNCHANGED streamVars

\* read_line returned Ok with input_buffer: the rest of this iteration of
\* main's loop and, if the loop goes on, the prompt of the next one
MainRead(input_buffer) ==
    \E it \in {MainIteration(Table, input_buffer)} :
        /\ num_rows' = it.num_rows
        /\ pages' = it.pages
        /\ pc' = CASE it.ctl = "continue" -> "main"
                   [] it.ctl = "exit"     -> "exit"
                   [] OTHER               -> "panic"
        /\ out' = IF it.ctl = "continue" THEN Append(it.written, PrintPrompt)
                  ELSE it.written
        /\ last' = [NoLast EXCEPT !.op = "main", !.line = input_buffer,
                                  !.input = it.input, !.meta = it.meta,
                                  !.prep = it.prep, !.result = it.exec,
                                  !.statement_type = it.statement.statement_type,
                                  !.has_row = it.statement.has_row,
                                  !.row = it.statement.row_to_insert,
                                  !.rows = it.rows, !.slots = it.slots]

\* standard input delivers the next line
MainLine(line) ==
    /\ pc = "main"
    /\ ~eof
    /\ MainRead(line)
    /\ UNCHANGED <<endian, eof, supplied, attempted>>
    /\ UNCHANGED codecVars
    /\ UNCHANGED streamVars

\* standard input is at end of file: read_line returns Ok(0)
MainEof ==
    /\ pc = "main"
    /\ MainRead(<<>>)
    /\ eof' = TRUE
    /\ UNCHANGED <<endian, supplied, attempted>>
    /\ UNCHANGED codecVars
    /\ UNCHANGED streamVars

\* read_line returned Err: read_input prints "Error reading input" and exit(1)
MainReadError ==
    /\ pc = "main"
    /\ ~eof
    /\ pc' = "exit"
    /\ out' = <<[fmt |-> "Error reading input\n", args |-> <<>>]>>
    /\ last' = [NoLast EXCEPT !.op = "main", !.result = "read_error"]
    /\ UNCHANGED <<endian, num_rows, pages, eof, supplied, attempted>>
    /\ UNCHANGED codecVars
    /\ UNCHANGED streamVars

NextMain ==
    \/ MainStart
    \/ \E line \in Lines : MainLine(line)
    \/ MainEof
    \/ MainReadError

SpecMain == Init /\ [][NextMain]_vars

---------------------------------------------------------------------------
(* Properties.                                                              *)

\* the step described by l called execute_insert with a row
IsInsertCall(l) ==
    \/ l.op = "execute_insert"
    \/ l.op = "repl" /\ l.prep = "Success" /\ l.statement_type = "Insert" /\ l.has_row

\* the step described by l called execute_select
IsSelectCall(l) ==
    \/ l.op = "execute_select"
    \/ l.op = "repl" /\ l.prep = "Success" /\ l.statement_type = "Select"

IsSlotCall(l) == l.op \in {"slot_write", "slot_read"}

SeqRange(q) == {q[i] : i \in 1..Len(q)}

\* the row of the line "insert +01 b a"
RowDup == MkRow(U32(0, 1), CopyAt(Zeros(COLUMN_USERNAME_SIZE), 0, <<98>>),
                           CopyAt(Zeros(COLUMN_EMAIL_SIZE), 0, <<97>>))

\* the lines a select wrote: all it wrote, less the next prompt in run_repl
SelectLines == IF last.op = "repl" THEN SubSeq(out, 1, Len(out) - 1) ELSE out

\* C1: after n successful inserts into a fresh table a select yields exactly
\* n rows, in insertion order, the i-th being the row given to the i-th
\* successful insert, and it writes one line "{} {} {}" per row; the row of
\* "insert 1 a b" is written as "1 a b" and that of "insert +01 b a" as "1 b a"
\* (id in decimal, the fields without their zero padding).
C1_SelectYieldsInserted ==
    IsSelectCall(last) =>
        /\ Len(supplied) = num_rows
        /\ last.rows = supplied
        /\ Len(SelectLines) = num_rows
        /\ last.op = "repl" => out[Len(out)] = PrintPrompt
        /\ \A i \in 1..num_rows :
               /\ SelectLines[i].fmt = "{} {} {}\n"
               /\ supplied[i] = RowA => SelectLines[i].args = <<<<49>>, <<97>>, <<98>>>>
               /\ supplied[i] = RowDup => SelectLines[i].args = <<<<49>>, <<98>>, <<97>>>>

C1_Witness ==
    /\ IsSelectCall(last)
    /\ last.op = "repl"
    /\ num_rows = MAX_ROWS
    /\ {RowA, RowB, RowDup} \subseteq SeqRange(supplied)

\* C2: execute_insert called on a table with num_rows = MAX_ROWS returns
\* TableFull and leaves num_rows and every page as they were.
C2_TableFullMutatesNothing ==
    [][(IsInsertCall(last') /\ num_rows = MAX_ROWS)
          => (last'.result = "TableFull" /\ num_rows' = num_rows /\ pages' = pages)]_vars

C2_Witness ==
    /\ last.op = "execute_insert"
    /\ last.result = "TableFull"
    /\ num_rows = MAX_ROWS

\* C3: num_rows never exceeds MAX_ROWS = MAX_PAGES * ROWS_PER_PAGE.
C3_NumRowsBounded == num_rows <= MAX_PAGES * ROWS_PER_PAGE /\ num_rows <= MAX_ROWS

C3_Witness ==
    /\ last.op = "repl"
    /\ last.result = "TableFull"
    /\ num_rows = MAX_ROWS

\* C4: filling a fresh table by inserts only, exactly the first MAX_ROWS
\* inserts return Success, every later one returns TableFull and leaves
\* num_rows = MAX_ROWS, and a select afterwards yields the first MAX_ROWS rows.
C4_CapacityBoundary ==
    /\ last.op = "execute_insert" =>
           last.result = IF Len(attempted) <= MAX_ROWS THEN "Success" ELSE "TableFull"
    /\ num_rows = IF Len(attempted) <= MAX_ROWS THEN Len(attempted) ELSE MAX_ROWS
    /\ (last.op = "execute_select" /\ Len(attempted) > MAX_ROWS) =>
           /\ last.rows = SubSeq(attempted, 1, MAX_ROWS)
           /\ Len(out) = MAX_ROWS

C4_Witness ==
    /\ last.op = "execute_select"
    /\ Len(attempted) = MAX_ROWS + MaxExtra
    /\ Len(last.rows) = MAX_ROWS

\* C5: deserialize of a buffer of at least ROW_SIZE bytes into which a Row
\* was serialized returns a Row equal to it in all three fields.
C5_RoundTrip ==
    cpc = "deserialized" =>
        /\ cDec.id = cRow.id
        /\ cDec.username = cRow.username
        /\ cDec.email = cRow.email

C5_Witness ==
    /\ cpc = "deserialized"
    /\ cRow = RowB
    /\ Len(cBuf) > ROW_SIZE
    /\ endian = "big"

\* C6: for an index i with i / ROWS_PER_PAGE < MAX_PAGES, row_slot(i) is the
\* ROW_SIZE bytes of page i / ROWS_PER_PAGE at offset (i % ROWS_PER_PAGE) *
\* ROW_SIZE: a row serialized through it lands there and nowhere else (a page
\* allocated by the call is zero elsewhere, no other page is touched), and a
\* row deserialized through it is the row stored there.
C6_SlotLocation ==
    [][(IsSlotCall(last') /\ last'.index \div ROWS_PER_PAGE < MAX_PAGES) =>
          LET p   == last'.index \div ROWS_PER_PAGE
              o   == (last'.index % ROWS_PER_PAGE) * ROW_SIZE
              old == IF is_none(pages[p]) THEN Zeros(PAGE_SIZE) ELSE pages[p]
              new == pages'[p]
          IN  /\ pc' = "idle"
              /\ last'.page_num = p
              /\ last'.byte_offset = o
              /\ last'.byte_end - last'.byte_offset = ROW_SIZE
              /\ \A q \in PageNums \ {p} : pages'[q] = pages[q]
              /\ Len(new) = PAGE_SIZE
              /\ \A k \in 1..PAGE_SIZE : (k <= o \/ k > o + ROW_SIZE) => new[k] = old[k]
              /\ last'.op = "slot_write" =>
                     \A r \in Rows : last'.row = r =>
                         deserialize(Slice(new, o + 1, ROW_SIZE)) = r
              /\ last'.op = "slot_read" =>
                     /\ new = old
                     /\ \A r \in Rows :
                            Slice(old, o + 1, ROW_SIZE) = serialize(r, Zeros(ROW_SIZE))
                                => last'.rows = <<r>>]_vars

C6_Witness ==
    /\ last.op = "slot_read"
    /\ last.index = ROWS_PER_PAGE
    /\ last.rows = <<RowB>>
    /\ last.page_num = 1
    /\ last.byte_offset = 0
    /\ is_none(pages[0])

\* C7: row_slot(index) panics exactly when index / ROWS_PER_PAGE >= MAX_PAGES,
\* that is exactly when index >= MAX_ROWS, and then no page was allocated and
\* no byte changed.
C7_SlotPanic ==
    [][IsSlotCall(last') =>
          /\ (last'.result = "panic") <=> (last'.index \div ROWS_PER_PAGE >= MAX_PAGES)
          /\ (last'.result = "panic") <=> (last'.index >= MAX_ROWS)
          /\ (pc' = "panic") <=> (last'.result = "panic")
          /\ last'.result = "panic" => pages' = pages]_vars

C7_Witness ==
    /\ pc = "panic"
    /\ IsSlotCall(last)
    /\ last.index = MAX_ROWS
    /\ \E p \in PageNums : ~is_none(pages[p])

\* C8: execute_insert and execute_select never call row_slot with an index
\* whose page number is >= MAX_PAGES, so row_slot never panics under them.
C8_SlotIndexInRange ==
    /\ \A k \in 1..Len(last.slots) : last.slots[k] \div ROWS_PER_PAGE < MAX_PAGES
    /\ last.result # "panic"

C8_Witness ==
    /\ last.op = "execute_select"
    /\ num_rows = MAX_ROWS
    /\ last.slots = [k \in 1..MAX_ROWS |-> k - 1]

\* C9: an insert line whose username is longer than the field still inserts
\* a row, holding the first COLUMN_USERNAME_SIZE bytes of the username.
C9_OverlongTruncated ==
    (last.op = "repl" /\ last.line = LineTooLong) =>
        /\ pc = "repl"
        /\ last.result = "Success"
        /\ last.row.username = LongWord(COLUMN_USERNAME_SIZE)

\* C10: a step changes num_rows only if it is an execute_insert that returns
\* Success, and then by exactly +1.
C10_NumRowsMonotonic ==
    [][IF IsInsertCall(last') /\ last'.result = "Success"
       THEN num_rows' = num_rows + 1
       ELSE num_rows' = num_rows]_vars

C10_Witness ==
    /\ last.op = "repl"
    /\ last.result = "Success"
    /\ last.has_row
    /\ num_rows = MAX_ROWS

\* the ROW_SIZE bytes of slot i in the pages pgs
SlotBytes(pgs, i) ==
    Slice(pgs[i \div ROWS_PER_PAGE], ((i % ROWS_PER_PAGE) * ROW_SIZE) + 1, ROW_SIZE)

\* C11: once row i is stored (i < num_rows), no later step, be it an insert
\* that succeeds, an insert that returns TableFull or a select, changes the
\* ROW_SIZE bytes of slot i, and the row decoded from them is at all times
\* the row that was inserted as the i-th.
C11_StoredRowsImmutable ==
    /\ [](\A i \in 0..(num_rows - 1) :
             deserialize(SlotBytes(pages, i)) = supplied[i + 1])
    /\ [][\A i \in 0..(num_rows - 1) :
             /\ ~is_none(pages'[i \div ROWS_PER_PAGE])
             /\ SlotBytes(pages', i) = SlotBytes(pages, i)]_vars

C11_Witness ==
    /\ last.op = "repl"
    /\ last.result = "TableFull"
    /\ last.row = RowDup
    /\ num_rows = MAX_ROWS
    /\ supplied[1] = RowB
    /\ deserialize(SlotBytes(pages, 0)) = RowB
    /\ deserialize(SlotBytes(pages, MAX_ROWS - 1)) = RowA

\* the rows stored in the table t, in index order
StoredRows(t) == [k \in 1..t.num_rows |-> deserialize(SlotBytes(t.pages, k - 1))]

\* C12: a select yields the rows stored in the table, so two selects with no
\* insert in between yield identical sequences (rows and written lines), and
\* a select leaves num_rows, the set of allocated pages and every page byte
\* unchanged although it goes through the allocating row_slot.
C12_IdempotentRead ==
    /\ [](IsSelectCall(last) =>
             /\ last.rows = StoredRows(Table)
             /\ SelectLines = [k \in 1..num_rows |-> RowWrite(last.rows[k])])
    /\ [][IsSelectCall(last') =>
             /\ num_rows' = num_rows
             /\ pages' = pages
             /\ IsSelectCall(last) =>
                    (last'.rows = last.rows /\ SelectLines' = SelectLines)]_vars

C12_Witness ==
    /\ IsSelectCall(last)
    /\ last.op = "repl"
    /\ num_rows = ROWS_PER_PAGE
    /\ Len(last.rows) = ROWS_PER_PAGE
    /\ is_none(pages[1])

\* insert lines with fewer than three fields after the keyword, or with an id
\* that is no u32 (2^32; a negative number)
MalformedLines == {LineShort, LineOverflow, LineBadId}

\* a line without its line end
Chomp(line) ==
    IF line # <<>> /\ line[Len(line)] = 10 THEN SubSeq(line, 1, Len(line) - 1) ELSE line

\* C13: in run_repl a malformed insert line (fewer than three fields after
\* the keyword, or an id that does not parse as u32) is answered with
\* "Syntax Error in '<line>'": no row is constructed, nothing is executed,
\* the table is unchanged and the loop goes on with the next prompt.
C13_SyntaxError ==
    [][(last'.op = "repl" /\ (last'.line \in MalformedLines \/ last'.prep = "SyntaxError")) =>
          /\ last'.prep = "SyntaxError"
          /\ last'.line \in MalformedLines => last'.input = Chomp(last'.line)
          /\ out' = <<[fmt |-> "Syntax Error in '{}'\n", args |-> <<last'.input>>],
                      PrintPrompt>>
          /\ ~last'.has_row
          /\ last'.result = "none"
          /\ last'.slots = <<>>
          /\ num_rows' = num_rows
          /\ pages' = pages
          /\ supplied' = supplied
          /\ pc' = "repl"]_vars

C13_Witness ==
    /\ last.op = "repl"
    /\ last.line = LineBadId
    /\ last.prep = "SyntaxError"
    /\ num_rows = 1
    /\ pc = "repl"

\* C14: a line starting with '.' is a meta-command.  ".exit" makes run_repl
\* return at once, writing nothing, and no later line is processed; any other
\* one writes "Unrecognized Command '<line>'." and the loop goes on with the
\* next prompt.  No meta-command prepares or executes a statement or changes
\* the table.
C14_MetaCommand ==
    /\ [][(last'.op = "repl" /\ (\/ last'.line \in {LineExit, LineMeta}
                                 \/ last'.meta # "none"
                                 \/ (last'.input # <<>> /\ last'.input[1] = 46))) =>
             /\ last'.line = LineExit => last'.input = dotExit
             /\ last'.line = LineMeta => last'.input = <<46, 104>>
             /\ last'.prep = "none"
             /\ last'.result = "none"
             /\ num_rows' = num_rows
             /\ pages' = pages
             /\ supplied' = supplied
             /\ IF last'.input = dotExit
                THEN pc' = "idle" /\ out' = <<>> /\ last'.meta = "Exit"
                ELSE /\ pc' = "repl"
                     /\ last'.meta = "Unrecognized"
                     /\ out' = <<[fmt  |-> "Unrecognized Command '{}'.\n",
                                  args |-> <<last'.input>>], PrintPrompt>>]_vars
    /\ [][pc # "repl" => last'.op # "repl"]_vars

C14_Witness ==
    /\ last.op = "repl"
    /\ last.line = LineExit
    /\ last.meta = "Exit"
    /\ pc = "idle"
    /\ out = <<>>
    /\ num_rows = MAX_ROWS

\* the trimmed line input begins with the keyword kw
BeginsWith(input, kw) == Len(input) >= Len(kw) /\ \A k \in 1..Len(kw) : input[k] = kw[k]

\* C15: in run_repl a line that is no meta-command and begins with neither
\* "insert" nor "select" is answered with "Unrecognized keyword at start of
\* '<line>'": nothing is executed, the table is unchanged and the loop goes
\* on; an iteration executes an insert only for a line beginning with
\* "insert" and a select only for one beginning with "select".
C15_UnrecognizedKeyword ==
    /\ [][(/\ last'.op = "repl"
           /\ last'.result # "read_error"
           /\ \/ last'.line \in {LineOther, LineBlank}
              \/ last'.prep = "Unrecognized"
              \/ ~(\/ BeginsWith(last'.input, <<46>>)
                   \/ BeginsWith(last'.input, kwInsert)
                   \/ BeginsWith(last'.input, kwSelect))) =>
             /\ last'.line = LineOther => last'.input = <<100, 101, 108, 32, 49>>
             /\ last'.line = LineBlank => last'.input = <<>>
             /\ last'.prep = "Unrecognized"
             /\ out' = <<[fmt  |-> "Unrecognized keyword at start of '{}'\n",
                          args |-> <<last'.input>>], PrintPrompt>>
             /\ last'.result = "none"
             /\ last'.slots = <<>>
             /\ last'.rows = <<>>
             /\ ~last'.has_row
             /\ num_rows' = num_rows
             /\ pages' = pages
             /\ supplied' = supplied
             /\ pc' = "repl"]_vars
    /\ [](last.op = "repl" =>
             /\ (IsInsertCall(last) \/ last.statement_type = "Insert")
                    => BeginsWith(last.input, kwInsert)
             /\ (IsSelectCall(last) \/ last.statement_type = "Select")
                    => BeginsWith(last.input, kwSelect)
             /\ (last.result \in {"Success", "TableFull"} \/ last.slots # <<>>)
                    => (BeginsWith(last.input, kwInsert) \/ BeginsWith(last.input, kwSelect)))

C15_Witness ==
    /\ last.op = "repl"
    /\ last.line = LineOther
    /\ last.prep = "Unrecognized"
    /\ num_rows = 1
    /\ pc = "repl"

\* C16: whether execute_insert succeeds depends on num_rows alone, not on
\* the row: any row, one with an id already stored included, is accepted
\* exactly when num_rows < MAX_ROWS, is stored as a row of its own at index
\* num_rows, and the rows stored before stay where they are.
C16_DuplicateIds ==
    [][IsInsertCall(last') =>
          /\ (last'.result = "Success") <=> (num_rows < MAX_ROWS)
          /\ (last'.result = "TableFull") <=> (num_rows >= MAX_ROWS)
          /\ last'.result = "Success" =>
                 /\ last'.slots = <<num_rows>>
                 /\ num_rows' = num_rows + 1
                 /\ supplied' = Append(supplied, last'.row)
                 /\ deserialize(SlotBytes(pages', num_rows)) = last'.row
                 /\ \A i \in 0..(num_rows - 1) :
                        SlotBytes(pages', i) = SlotBytes(pages, i)]_vars

\* the same row inserted twice, and another row with the same id between them
C16_Witness ==
    /\ IsInsertCall(last)
    /\ last.result = "Success"
    /\ last.row = RowA
    /\ num_rows = 3
    /\ supplied = <<RowA, RowDup, RowA>>
    /\ StoredRows(Table) = <<RowA, RowDup, RowA>>

\* C17: under execute_insert and execute_select (called directly or by
\* run_repl) page p is allocated exactly when p * ROWS_PER_PAGE < num_rows; a
\* page is allocated only by the successful insert that writes its first
\* row, it is never released, and when allocated it holds PAGE_SIZE bytes
\* that are zero everywhere but in the slot just written.
C17_LazyAllocation ==
    /\ [](\A p \in PageNums : ~is_none(pages[p]) <=> (p * ROWS_PER_PAGE < num_rows))
    /\ [][\A p \in PageNums :
             /\ ~is_none(pages[p]) => ~is_none(pages'[p])
             /\ (is_none(pages[p]) /\ ~is_none(pages'[p])) =>
                    /\ IsInsertCall(last')
                    /\ last'.result = "Success"
                    /\ num_rows = p * ROWS_PER_PAGE
                    /\ last'.slots = <<p * ROWS_PER_PAGE>>
                    /\ Len(pages'[p]) = PAGE_SIZE
                    /\ Slice(pages'[p], 1, ROW_SIZE) = serialize(last'.row, Zeros(ROW_SIZE))
                    /\ \A k \in (ROW_SIZE + 1)..PAGE_SIZE : pages'[p][k] = 0]_vars

\* the insert that wrote the first row of the second page
C17_Witness ==
    /\ IsInsertCall(last)
    /\ last.result = "Success"
    /\ last.row = RowB
    /\ num_rows = ROWS_PER_PAGE + 1
    /\ ~is_none(pages[1])
    /\ Slice(pages[1], ROW_SIZE + 1, PAGE_SIZE - ROW_SIZE) = Zeros(PAGE_SIZE - ROW_SIZE)
    /\ \A p \in PageNums : p > 1 => is_none(pages[p])

\* C18: every slot lies wholly inside its page, (i % ROWS_PER_PAGE) *
\* ROW_SIZE + ROW_SIZE <= PAGE_SIZE for every i < MAX_ROWS, the windows
\* row_slot returns for two different indexes never share a byte, and the
\* tail bytes [ROWS_PER_PAGE * ROW_SIZE, PAGE_SIZE) of an allocated page are
\* zero after any sequence of inserts.
C18_SlotsDisjoint ==
    /\ \A i \in 0..(MAX_ROWS - 1) :
           ((i % ROWS_PER_PAGE) * ROW_SIZE) + ROW_SIZE <= PAGE_SIZE
    /\ \A i \in 0..(MAX_ROWS - 1) : \A a \in {row_slot(pages, i)} :
           /\ ~a.panic
           /\ a.byte_offset >= 0
           /\ a.byte_end = a.byte_offset + ROW_SIZE
           /\ a.byte_end <= PAGE_SIZE
           /\ \A j \in 0..(MAX_ROWS - 1) : \A b \in {row_slot(pages, j)} :
                  i # j => \/ a.page_num # b.page_num
                           \/ a.byte_end <= b.byte_offset
                           \/ b.byte_end <= a.byte_offset
    /\ \A p \in PageNums : ~is_none(pages[p]) =>
           \A k \in ((ROWS_PER_PAGE * ROW_SIZE) + 1)..PAGE_SIZE : pages[p][k] = 0

\* a full table whose first page ends with a row of nonzero bytes only
C18_Witness ==
    /\ num_rows = MAX_ROWS
    /\ supplied[ROWS_PER_PAGE] = RowB
    /\ ROWS_PER_PAGE * ROW_SIZE < PAGE_SIZE
    /\ pages[0][ROWS_PER_PAGE * ROW_SIZE] = 120
    /\ pages[0][(ROWS_PER_PAGE * ROW_SIZE) + 1] = 0
    /\ \A p \in PageNums : ~is_none(pages[p])

\* field holds the bytes of value followed only by zero bytes
ZeroPadded(field, size, value) ==
    /\ Len(field) = size
    /\ Len(value) <= size
    /\ \A k \in 1..size : field[k] = IF k <= Len(value) THEN value[k] ELSE 0

\* C19: serialize writes the 4 bytes of id (in the target's byte order) at
\* offset 0, the COLUMN_USERNAME_SIZE bytes of username at offset 4 and the
\* COLUMN_EMAIL_SIZE bytes of email right after them, ROW_SIZE = 4 +
\* COLUMN_USERNAME_SIZE + COLUMN_EMAIL_SIZE bytes in all, and leaves every byte
\* of the buffer at offset >= ROW_SIZE as it was; in a Row made by Row::new
\* from values within the limits each text field is the value's bytes
\* followed only by zero bytes.  With the source's sizes 32 and 255: offsets
\* 0, 4, 36, 291 bytes, "testuser" followed by 24 zeros and
\* "test@example.com" followed by 239 zeros.
C19_Layout ==
    /\ [][(cpc = "built" /\ cpc' = "serialized") =>
             /\ Len(cBuf') = Len(cBuf)
             /\ cRow.id = IF endian = "little"
                          THEN U32(cBuf'[3] + (256 * cBuf'[4]), cBuf'[1] + (256 * cBuf'[2]))
                          ELSE U32(cBuf'[2] + (256 * cBuf'[1]), cBuf'[4] + (256 * cBuf'[3]))
             /\ \A k \in 1..COLUMN_USERNAME_SIZE : cBuf'[4 + k] = cRow.username[k]
             /\ \A k \in 1..COLUMN_EMAIL_SIZE :
                    cBuf'[4 + COLUMN_USERNAME_SIZE + k] = cRow.email[k]
             /\ ROW_SIZE = 4 + COLUMN_USERNAME_SIZE + COLUMN_EMAIL_SIZE
             /\ \A k \in (ROW_SIZE + 1)..Len(cBuf) : cBuf'[k] = cBuf[k]]_vars
    /\ []((cArgs.made = "Row::new" /\ cpc # "panic") =>
             /\ ZeroPadded(cRow.username, COLUMN_USERNAME_SIZE, Utf8(cArgs.username))
             /\ ZeroPadded(cRow.email, COLUMN_EMAIL_SIZE, Utf8(cArgs.email)))
    /\ [](COLUMN_ID_SIZE + 32 + 255 = 291 /\ COLUMN_ID_SIZE + 32 = 36
          /\ 32 - 8 = 24 /\ 255 - 16 = 239)

\* Row::new(66052, "a", "é") serialized into a longer buffer of 255s
C19_Witness ==
    /\ cpc = "serialized"
    /\ cArgs = [made |-> "Row::new", username |-> <<97>>, email |-> <<233>>]
    /\ cRow.id = U32(258, 772)
    /\ endian = "big"
    /\ Len(cBuf) = ROW_SIZE + 2
    /\ SubSeq(cBuf, 1, 6) = <<1, 2, 3, 4, 97, 0>>
    /\ SubSeq(cBuf, COLUMN_EMAIL_OFFSET + 1, COLUMN_EMAIL_OFFSET + 2) = <<195, 169>>
    /\ SubSeq(cBuf, ROW_SIZE + 1, ROW_SIZE + 2) = <<255, 255>>

\* C20: on every finite input run_repl eventually returns once it has read
\* all the lines, also when the input ends without ".exit", so that it
\* writes finitely many prompts.
C20_ReplTerminates == (pc = "repl" /\ stream = <<>>) ~> (pc # "repl")

\* how many prompts the sequence of writes w holds
PromptCount(w) == Cardinality({k \in 1..Len(w) : w[k] = PrintPrompt})

\* C21: in run_repl exactly one prompt "rsql > " is written before each line
\* is read and it is the last thing written before the read; an insert that
\* succeeds writes nothing besides the next prompt; an insert rejected with
\* TableFull writes exactly one line "Row not inserted, table full '<id>
\* <username> <email>'" naming the rejected row, then the next prompt, and
\* the loop goes on; everything a command writes comes before the next
\* prompt, and no prompt follows once the loop has ended.
C21_OutputOrder ==
    [][last'.op \in {"run_repl", "repl"} =>
          /\ last'.op = "repl" =>
                 (pc = "repl" /\ PromptCount(out) = 1 /\ out[Len(out)] = PrintPrompt)
          /\ pc' = "repl" => (PromptCount(out') = 1 /\ out'[Len(out')] = PrintPrompt)
          /\ pc' # "repl" => PromptCount(out') = 0
          /\ (IsInsertCall(last') /\ last'.result = "Success") => out' = <<PrintPrompt>>
          /\ (IsInsertCall(last') /\ last'.result = "TableFull") =>
                 /\ pc' = "repl"
                 /\ Len(out') = 2
                 /\ out'[1].fmt = "Row not inserted, table full '{}'\n"
                 /\ out'[1].args = <<RowToString(last'.row)>>
                 /\ last'.row = RowA => out'[1].args = <<<<49, 32, 97, 32, 98>>>>
                 /\ last'.row = RowDup => out'[1].args = <<<<49, 32, 98, 32, 97>>>>
                 /\ last'.row \in {RowA, RowDup}]_vars

\* "insert +01 b a" on a full table
C21_Witness ==
    /\ last.op = "repl"
    /\ last.line = LineInsertDup
    /\ last.result = "TableFull"
    /\ pc = "repl"
    /\ out = <<[fmt  |-> "Row not inserted, table full '{}'\n",
                args |-> <<<<49, 32, 98, 32, 97>>>>], PrintPrompt>>

\* C22: in the loop of the binary a well-formed line "insert <id> <username>
\* <email>" stores a row with these three values at index num_rows, every
\* insert that was counted in num_rows encoded a row into its slot, and a
\* select decodes and writes every one of the num_rows stored rows.
C22_MainInsertSelect ==
    last.op = "main" =>
        /\ (last.line \in {LineInsertA, LineInsertDup} /\ num_rows < MAX_ROWS) =>
               /\ last.result = "Success"
               /\ last.slots = <<num_rows - 1>>
               /\ deserialize(SlotBytes(pages, num_rows - 1))
                      = IF last.line = LineInsertA THEN RowA ELSE RowDup
        /\ (last.statement_type = "Insert" /\ last.result = "Success") => last.has_row
        /\ (last.statement_type = "Select" /\ last.result = "Success") =>
               /\ Len(last.rows) = num_rows
               /\ last.rows = StoredRows(Table)
               /\ Len(out) > num_rows

=============================================================================
